---- MODULE Spec2Model ----
(***************************************************************************)
(* json-shake (src/main.go): extraction of image URLs from a JSON tree,    *)
(* size-constrained JPEG re-encoding, and the per-URL download loop.       *)
(*                                                                         *)
(* Strings are sequences of one-character strings.  Four specifications    *)
(* share the variables: SpecExtract (extractImageURLs), SpecCompress       *)
(* (compressImage), Spec (main's download loop over downloadImage, one     *)
(* run) and SpecRerun (two runs on the same output directory).             *)
(***************************************************************************)
EXTENDS Integers, Sequences, FiniteSets, TLC

VARIABLES
    data, urls0, urls, epc,                 \* extractImageURLs: input tree, slice before, slice after
    cin, cres, cpc,                         \* compressImage: input, result
    limitQ, imageURLs, fs, run, idx,        \* main: -limit, extracted URLs, output directory, loop
    successCount, failCount, last, saved, pc

evars == <<data, urls0, urls, epc>>
cvars == <<cin, cres, cpc>>
dvars == <<limitQ, imageURLs, fs, run, idx, successCount, failCount, last, saved, pc>>
vars == <<data, urls0, urls, epc, cin, cres, cpc, limitQ, imageURLs, fs, run, idx, successCount, failCount, last, saved, pc>>

(***************************************************************************)
(* Bounds of the model.                                                    *)
(***************************************************************************)
\* longest input string of the extractor, in tokens of StrTokens
MaxTok == 4
\* largest JSON tree of the extractor, in nodes
MaxNodes == 3
\* the -limit values are the multiples of 1/LimitDenom byte up to MaxLimitQ
LimitDenom == 2
MaxLimitQ == 4
\* largest fetched payload, in bytes
MaxSize == 3
\* most URLs in the extracted list
MaxURLs == 2

\* the element of a one-element set: Only({F(x) : x \in {e}}) is F(e) with e evaluated once
Only(S) == CHOOSE x \in S : TRUE

Max(S) == Only({CHOOSE x \in T : \A y \in T : y <= x : T \in {S}})
Min(S) == Only({CHOOSE x \in T : \A y \in T : x <= y : T \in {S}})

(***************************************************************************)
(* strings package                                                         *)
(***************************************************************************)
\* s[i..] begins with pre (1-based i)
HasAt(s, i, pre) == i >= 1 /\ i + Len(pre) - 1 <= Len(s) /\ SubSeq(s, i, i + Len(pre) - 1) = pre

HasPrefix(s, pre) == HasAt(s, 1, pre)

Contains(s, sub) == \E i \in 1..(Len(s) - Len(sub) + 1) : HasAt(s, i, sub)

UpperLetters == <<"A","B","C","D","E","F","G","H","I","J","K","L","M","N","O","P","Q","R","S","T","U","V","W","X","Y","Z">>
LowerLetters == <<"a","b","c","d","e","f","g","h","i","j","k","l","m","n","o","p","q","r","s","t","u","v","w","x","y","z">>

LowerChar(c) == IF \E k \in 1..26 : UpperLetters[k] = c THEN LowerLetters[CHOOSE k \in 1..26 : UpperLetters[k] = c] ELSE c

ToLower(s) == Only({[k \in 1..Len(v) |-> LowerChar(v[k])] : v \in {s}})

(***************************************************************************)
(* imageURLPattern (src/main.go:24): "http", an optional "s", "://", one or *)
(* more characters outside the class of white space and the four           *)
(* characters " ' < >, a dot, one of jpg|jpeg|png|gif|bmp|webp|svg, and     *)
(* optionally "?" with any number of characters outside the same class;    *)
(* matched with Go's leftmost-first semantics.                             *)
(***************************************************************************)
\* the characters the classes [^\s"'<>] exclude (\s is [\t\n\f\r ])
Excluded == {" ", "\t", "\n", "\f", "\r", "\"", "'", "<", ">"}

\* the extension alternation, in the pattern's order
PatternExts == << <<"j","p","g">>, <<"j","p","e","g">>, <<"p","n","g">>, <<"g","i","f">>, <<"b","m","p">>, <<"w","e","b","p">>, <<"s","v","g">> >>

SchemeHTTP == <<"h","t","t","p",":","/","/">>
SchemeHTTPS == <<"h","t","t","p","s",":","/","/">>

\* first position >= i that holds an excluded character, Len(s)+1 when none
RunEnd(s, i) ==
    LET bad == {j \in i..Len(s) : s[j] \in Excluded}
    IN IF bad = {} THEN Len(s) + 1 ELSE Min(bad)

\* length of the first alternative of the extension group that matches at p, 0 when none
ExtAt(s, p) ==
    LET ks == {k \in 1..Len(PatternExts) : HasAt(s, p, PatternExts[k])}
    IN IF ks = {} THEN 0 ELSE Len(PatternExts[Min(ks)])

\* the preferred match of the pattern that starts at i: the position after its
\* last character, 0 when the pattern does not match at i
MatchAt(s, i) ==
    LET b == IF HasAt(s, i, SchemeHTTPS) THEN i + 8
             ELSE IF HasAt(s, i, SchemeHTTP) THEN i + 7 ELSE 0
    IN IF b = 0 THEN 0
       ELSE LET r == RunEnd(s, b)
                \* the greedy + gives back characters until \.ext follows
                dots == {p \in (b + 1)..(r - 1) : s[p] = "." /\ ExtAt(s, p + 1) # 0}
            IN IF dots = {} THEN 0
               ELSE LET p == Max(dots)
                        e == p + 1 + ExtAt(s, p + 1)
                    IN IF e <= Len(s) /\ s[e] = "?" THEN RunEnd(s, e + 1) ELSE e

\* regexp.FindAllStringIndex(s, -1) from position i on: successive
\* non-overlapping matches, each searched from the end of the one before
RECURSIVE FindAllFrom(_, _)
FindAllFrom(s, i) ==
    IF i > Len(s) THEN <<>>
    ELSE LET e == MatchAt(s, i)
         IN IF e = 0 THEN FindAllFrom(s, i + 1)
            ELSE <<[lo |-> i, hi |-> e - 1]>> \o FindAllFrom(s, e)

FindAllStringIndex(s) == FindAllFrom(s, 1)

\* imageURLPattern.FindAllString(s, -1)
FindAllString(s) ==
    LET ix == FindAllStringIndex(s)
    IN [k \in 1..Len(ix) |-> SubSeq(s, ix[k].lo, ix[k].hi)]

\* imageURLPattern.MatchString(s)
MatchString(s) == \E i \in 1..Len(s) : MatchAt(s, i) # 0

(***************************************************************************)
(* net/url's Parse, on the strings isPossibleImageURL passes it: they      *)
(* begin with http:// or https:// and hold letters, digits and the         *)
(* characters . : / ? and space.  The query is cut at the first "?", the   *)
(* authority runs to the first "/"; Parse fails on a character a host may  *)
(* not hold (here the space) and on a port that is not all digits.         *)
(***************************************************************************)
Digits == {"0","1","2","3","4","5","6","7","8","9"}

\* the authority of s: from after "//" to the first "/" or "?"
Authority(s) ==
    LET b == IF HasPrefix(s, SchemeHTTPS) THEN 9 ELSE 8
        stops == {j \in b..Len(s) : s[j] \in {"/", "?"}}
        e == IF stops = {} THEN Len(s) + 1 ELSE Min(stops)
    IN SubSeq(s, b, e - 1)

\* url.Parse(s) returns no error
UrlParseOK(s) ==
    LET a == Authority(s)
        colons == {j \in 1..Len(a) : a[j] = ":"}
    IN /\ \A j \in 1..Len(s) : s[j] \notin {"\t", "\n", "\f", "\r"}
       /\ \A j \in 1..Len(a) : a[j] # " "
       /\ colons # {} => \A j \in (Max(colons) + 1)..Len(a) : a[j] \in Digits

imageKeywords == << <<"i","m","a","g","e">>, <<"i","m","g">>, <<"p","h","o","t","o">>, <<"p","i","c","t","u","r","e">>, <<"p","i","c">>, <<"a","v","a","t","a","r">>, <<"t","h","u","m","b","n","a","i","l">>, <<"t","h","u","m","b">>, <<"b","a","n","n","e","r">>, <<"g","a","l","l","e","r","y">> >>

\* isPossibleImageURL with the keyword test on s itself, not on its lowercase form
isPossibleImageURL_NoLower(s) ==
    IF MatchString(s) THEN TRUE
    ELSE IF ~HasPrefix(s, SchemeHTTP) /\ ~HasPrefix(s, SchemeHTTPS) THEN FALSE
    ELSE IF ~UrlParseOK(s) THEN FALSE
    ELSE \E k \in 1..Len(imageKeywords) : Contains(s, imageKeywords[k])

isPossibleImageURL(s) ==
    IF MatchString(s) THEN TRUE
    ELSE IF ~HasPrefix(s, SchemeHTTP) /\ ~HasPrefix(s, SchemeHTTPS) THEN FALSE
    ELSE IF ~UrlParseOK(s) THEN FALSE
    ELSE \E k \in 1..Len(imageKeywords) : Contains(ToLower(s), imageKeywords[k])

(***************************************************************************)
(* JSON values as json.Unmarshal hands them over: a node is a string, a    *)
(* number, a boolean, null, an array, or an object (its values; a Go map   *)
(* is ranged over in an order the runtime picks).                          *)
(***************************************************************************)
JString(s) == [t |-> "string", s |-> s, items |-> <<>>]
JScalar(t) == [t |-> t, s |-> <<>>, items |-> <<>>]
JNode(t, items) == [t |-> t, s |-> <<>>, items |-> items]

Perms(n) == {f \in [1..n -> 1..n] : \A a, b \in 1..n : f[a] = f[b] => a = b}

\* ExtractString without the len(matches) == 0 guard of the fallback
ExtractString_NoGuard(v, u) ==
    LET u1 == u \o FindAllString(v)
    IN IF isPossibleImageURL(v) THEN Append(u1, v) ELSE u1

\* what one string value appends to the slice
ExtractString(v, u) ==
    LET matches == FindAllString(v)
        u1 == u \o matches
    IN IF Len(matches) = 0 /\ isPossibleImageURL(v) THEN Append(u1, v) ELSE u1

\* extractImageURLs(data, &urls): the slices the call can leave, one per
\* iteration order of the maps in data
RECURSIVE extractImageURLs(_, _), ExtractItems(_, _, _)
extractImageURLs(v, u) ==
    CASE v.t = "object" ->
            UNION {ExtractItems([k \in 1..Len(v.items) |-> v.items[f[k]]], 1, {u}) : f \in Perms(Len(v.items))}
      [] v.t = "array" -> ExtractItems(v.items, 1, {u})
      [] v.t = "string" -> {ExtractString(v.s, u)}
      [] OTHER -> {u}

ExtractItems(items, k, U) ==
    IF k > Len(items) THEN U
    ELSE ExtractItems(items, k + 1, UNION {extractImageURLs(items[k], u) : u \in U})

(***************************************************************************)
(* Inputs of the extractor.                                                *)
(***************************************************************************)
TokURL == <<"h","t","t","p",":","/","/","a">>
TokPNG == <<".","p","n","g">>
TokPic == <<"P","i","c">>
StrTokens == {TokURL \o TokPNG, SchemeHTTPS, TokPNG, <<" ">>, <<"?">>, TokPic}

RECURSIVE Concat(_)
Concat(ts) == IF ts = <<>> THEN <<>> ELSE Head(ts) \o Concat(Tail(ts))

TokStrings == {Concat(ts) : ts \in UNION {[1..n -> StrTokens] : n \in 0..MaxTok}}

\* no candidate; the fallback's candidate; two explicit matches and a keyword
LeafStrings == {TokURL, SchemeHTTPS \o TokPic, Concat(<<TokURL, TokPNG, <<" ">>, TokURL, TokPNG, TokPic>>)}

TreeLeaves == {JString(s) : s \in LeafStrings} \cup {JScalar("number")}

RECURSIVE TreesN(_), ForestsN(_)
\* the trees of exactly n nodes
TreesN(n) ==
    (IF n = 1 THEN TreeLeaves ELSE {}) \cup {JNode(t, f) : t \in {"array", "object"}, f \in ForestsN(n - 1)}

\* the sequences of trees of n nodes in all
ForestsN(n) ==
    IF n = 0 THEN {<<>>}
    ELSE UNION {{<<t>> \o f : t \in TreesN(k), f \in ForestsN(n - k)} : k \in 1..n}

ScalarInputs == {JString(s) : s \in TokStrings} \cup {JScalar("number"), JScalar("bool"), JScalar("null")}

ExtractInputs == ScalarInputs \cup UNION {TreesN(n) : n \in 1..MaxNodes}


(***************************************************************************)
(* compressImage (src/main.go:103-157).  A byte buffer is a record: what   *)
(* made it (kind), the format its content signature decodes as (sig,       *)
(* "none" when image.Decode fails on it), its length, and for a JPEG       *)
(* encode its quality.  id tells fetched payloads apart.                   *)
(***************************************************************************)
Fetched(id, sig, n) == [kind |-> "fetched", sig |-> sig, size |-> n, q |-> 0, id |-> id]
Encoded(q, n) == [kind |-> "jpeg", sig |-> "jpeg", size |-> n, q |-> q, id |-> 0]
EmptyBuf == [kind |-> "empty", sig |-> "none", size |-> 0, q |-> 0, id |-> 0]
NilBytes == [kind |-> "nil", sig |-> "none", size |-> 0, q |-> 0, id |-> 0]

\* the formats image.Decode knows here: image/jpeg, image/gif, image/png are registered
DecodeFormats == {"jpeg", "png", "gif"}
Sigs == DecodeFormats \cup {"none"}

qualities == <<85, 75, 65, 55, 45, 35, 25>>
FallbackQuality == 20

\* int64(limitMB * 1024 * 1024), the limit given in 1/LimitDenom bytes
LimitBytes(lq) == lq \div LimitDenom

\* what jpeg.Encode does at one quality: it fails, or writes size bytes
EncFail == [ok |-> FALSE, size |-> 0]
EncOK(n) == [ok |-> TRUE, size |-> n]

\* lines 150-156 failing when the quality-20 encode is still over the limit
Fallback_FailsOverBudget(d, lb, enc, tried) ==
    IF enc[FallbackQuality].ok /\ enc[FallbackQuality].size > lb
    THEN [data |-> NilBytes, err |-> TRUE, tried |-> Append(tried, FallbackQuality)]
    ELSE [data |-> IF enc[FallbackQuality].ok THEN Encoded(FallbackQuality, enc[FallbackQuality].size) ELSE EmptyBuf,
          err |-> FALSE,
          tried |-> Append(tried, FallbackQuality)]

\* lines 150-156: one encode at quality 20, its error dropped, the buffer returned
Fallback(d, lb, enc, tried) ==
    [data |-> IF enc[FallbackQuality].ok THEN Encoded(FallbackQuality, enc[FallbackQuality].size) ELSE EmptyBuf,
     err |-> FALSE,
     tried |-> Append(tried, FallbackQuality)]

\* the loop with a failed encode ending the call in error instead of continue
RECURSIVE LadderFrom_AbortOnError(_, _, _, _, _)
LadderFrom_AbortOnError(d, lb, enc, k, tried) ==
    IF k > Len(qualities) THEN Fallback(d, lb, enc, tried)
    ELSE IF d.sig \notin {"jpeg", "jpg", "png", "gif"} THEN [data |-> d, err |-> FALSE, tried |-> tried]
    ELSE IF ~enc[qualities[k]].ok THEN [data |-> NilBytes, err |-> TRUE, tried |-> Append(tried, qualities[k])]
    ELSE IF enc[qualities[k]].size <= lb
         THEN [data |-> Encoded(qualities[k], enc[qualities[k]].size), err |-> FALSE, tried |-> Append(tried, qualities[k])]
    ELSE LadderFrom_AbortOnError(d, lb, enc, k + 1, Append(tried, qualities[k]))

\* lines 120-156: the loop over qualities from index k on, then the fallback
RECURSIVE LadderFrom(_, _, _, _, _)
LadderFrom(d, lb, enc, k, tried) ==
    IF k > Len(qualities) THEN Fallback(d, lb, enc, tried)
    ELSE IF d.sig \notin {"jpeg", "jpg", "png", "gif"} THEN [data |-> d, err |-> FALSE, tried |-> tried]
    ELSE IF ~enc[qualities[k]].ok THEN LadderFrom(d, lb, enc, k + 1, Append(tried, qualities[k]))
    ELSE IF enc[qualities[k]].size <= lb
         THEN [data |-> Encoded(qualities[k], enc[qualities[k]].size), err |-> FALSE, tried |-> Append(tried, qualities[k])]
    ELSE LadderFrom(d, lb, enc, k + 1, Append(tried, qualities[k]))

\* compressImage(data, limitMB): the bytes returned, whether an error is
\* returned, and the qualities jpeg.Encode was called with, in call order
compressImage(d, lq, enc) ==
    LET limitBytes == LimitBytes(lq)
    IN IF d.size <= limitBytes THEN [data |-> d, err |-> FALSE, tried |-> <<>>]
       ELSE IF d.sig \notin DecodeFormats THEN [data |-> NilBytes, err |-> TRUE, tried |-> <<>>]
       ELSE LadderFrom(d, limitBytes, enc, 1, <<>>)

(***************************************************************************)
(* Inputs of compressImage: a payload, a limit of at least one byte, and   *)
(* what jpeg.Encode does at each quality: it fails, or writes as many      *)
(* bytes as the limit allows, or one byte more.                            *)
(***************************************************************************)
AllQualities == {qualities[k] : k \in 1..Len(qualities)} \cup {FallbackQuality}
EncOutcomes(lq) == {EncFail, EncOK(LimitBytes(lq)), EncOK(LimitBytes(lq) + 1)}
Encoders(lq) == [AllQualities -> EncOutcomes(lq)]
NoEncoder == [q \in AllQualities |-> EncFail]

\* the encoder matters only when the ladder is entered
EncodersFor(d, lq) == IF d.size > LimitBytes(lq) /\ d.sig \in DecodeFormats THEN Encoders(lq) ELSE {NoEncoder}

NoResult == [data |-> NilBytes, err |-> FALSE, tried |-> <<>>]


(***************************************************************************)
(* downloadImage (src/main.go:160-257) and main's loop (341-357).  The     *)
(* output directory is the set of the file names that exist in it.         *)
(***************************************************************************)
\* strconv of a non-negative int, as fmt's %d prints it
DigitChars == <<"0","1","2","3","4","5","6","7","8","9">>
RECURSIVE Itoa(_)
Itoa(n) == IF n < 10 THEN <<DigitChars[n + 1]>> ELSE Itoa(n \div 10) \o <<DigitChars[(n % 10) + 1]>>

\* strings.ReplaceAll(s, old, new) for a one-character old
ReplaceAll(s, old, new) == Only({[k \in 1..Len(v) |-> IF v[k] = old THEN new ELSE v[k]] : v \in {s}})

\* strings.TrimSpace
TrimSpace(s) ==
    Only({IF keep = {} THEN <<>> ELSE SubSeq(v, Min(keep), Max(keep)) :
          keep \in {{k \in 1..Len(v) : v[k] \notin {" ", "\t", "\n", "\f", "\r"}} : v \in {s}}, v \in {s}})

\* strings.Split(s, ";")[0]
BeforeSemicolon(s) ==
    Only({IF at = {} THEN s ELSE SubSeq(s, 1, Min(at) - 1) : at \in {{k \in 1..Len(s) : s[k] = ";"}}})

\* filepath.Ext of a file name: from its last dot on, empty without a dot
Ext(name) ==
    Only({IF at = {} THEN <<>> ELSE SubSeq(name, Max(at), Len(name)) : at \in {{k \in 1..Len(name) : name[k] = "."}}})

\* strings.TrimSuffix(name, suffix)
TrimSuffix(name, suffix) ==
    IF Len(suffix) <= Len(name) /\ SubSeq(name, Len(name) - Len(suffix) + 1, Len(name)) = suffix
    THEN SubSeq(name, 1, Len(name) - Len(suffix)) ELSE name

ExtJPG == <<".","j","p","g">>
ExtPNG == <<".","p","n","g">>
ExtGIF == <<".","g","i","f">>

\* the extensions map of getExtensionFromContentType
extensions == << <<<<"i","m","a","g","e","/","j","p","e","g">>, ExtJPG>>, <<<<"i","m","a","g","e","/","j","p","g">>, ExtJPG>>, <<<<"i","m","a","g","e","/","p","n","g">>, ExtPNG>>, <<<<"i","m","a","g","e","/","g","i","f">>, ExtGIF>>, <<<<"i","m","a","g","e","/","b","m","p">>, <<".","b","m","p">>>>, <<<<"i","m","a","g","e","/","w","e","b","p">>, <<".","w","e","b","p">>>>, <<<<"i","m","a","g","e","/","s","v","g","+","x","m","l">>, <<".","s","v","g">>>> >>

getExtensionFromContentType(contentType) ==
    Only({IF \E k \in 1..Len(extensions) : extensions[k][1] = ct
          THEN extensions[CHOOSE k \in 1..Len(extensions) : extensions[k][1] = ct][2]
          ELSE <<>> :
          ct \in {TrimSpace(lower) : lower \in {ToLower(first) : first \in {BeforeSemicolon(contentType)}}}})

\* lines 167-180: the file name before the request is sent
FirstName(u, index) ==
    Only({IF ~Contains(f1, <<".">>) THEN f1 \o <<"_">> \o Itoa(index) ELSE f1 :
          f1 \in {ReplaceAll(ReplaceAll(f0, "?", "_"), "&", "_") :
                  f0 \in {IF u.base \in {<<>>, <<".">>, <<"/">>} THEN <<"i","m","a","g","e","_">> \o Itoa(index) ELSE u.base}}})

\* lines 206-214: the file name after the response headers are in
NameAfterHeaders(filename, contentType) ==
    IF ~Contains(filename, <<".">>)
    THEN Only({IF ext # <<>> THEN filename \o ext ELSE filename : ext \in {getExtensionFromContentType(contentType)}})
    ELSE filename

\* originalSize > limitMB, the limit given in 1/LimitDenom bytes
ExceedsLimit(size, lq) == size * LimitDenom > lq

NoAttempt ==
    [i |-> 0, err |-> FALSE, skipped |-> FALSE, fetched |-> FALSE, body |-> NilBytes,
     compressed |-> FALSE, cerr |-> FALSE, cdata |-> NilBytes, name0 |-> <<>>, encAllFailed |-> FALSE,
     created |-> FALSE, existed |-> FALSE, wrote |-> FALSE, path |-> <<>>, content |-> NilBytes]

\* lines 222-257: from the size check to the end, with the bytes to save in hand
\* and the directory's answer to os.Create and Write
SaveStep(att, filename, imageData, dir, fo) ==
    IF fo = "createfail"
    THEN [fs |-> dir, att |-> [att EXCEPT !.err = TRUE, !.path = filename]]
    ELSE IF fo = "writefail"
    THEN [fs |-> dir \cup {filename},
          att |-> [att EXCEPT !.err = TRUE, !.path = filename, !.created = TRUE, !.existed = filename \in dir]]
    ELSE [fs |-> dir \cup {filename},
          att |-> [att EXCEPT !.path = filename, !.created = TRUE, !.existed = filename \in dir,
                              !.wrote = TRUE, !.content = imageData]]

\* the compression step that keeps the file name whatever compressImage returns
CompressStep_NoRename(att, filename, body, lq, enc) ==
    IF lq > 0 /\ ExceedsLimit(body.size, lq)
    THEN Only({[name |-> filename,
                data |-> r.data,
                att |-> [att EXCEPT !.compressed = TRUE, !.cerr = r.err, !.cdata = r.data, !.name0 = filename,
                                    !.encAllFailed = (r.tried # <<>> /\ \A q \in AllQualities : ~enc[q].ok)]] :
               r \in {compressImage(body, lq, enc)}})
    ELSE [name |-> filename, data |-> body, att |-> att]

\* lines 222-239: the compression step: the name and the bytes that go on to be saved
CompressStep(att, filename, body, lq, enc) ==
    IF lq > 0 /\ ExceedsLimit(body.size, lq)
    THEN Only({[name |-> IF ~r.err /\ (Ext(filename) = ExtPNG \/ Ext(filename) = ExtGIF)
                         THEN TrimSuffix(filename, Ext(filename)) \o ExtJPG ELSE filename,
                data |-> r.data,
                att |-> [att EXCEPT !.compressed = TRUE, !.cerr = r.err, !.cdata = r.data, !.name0 = filename,
                                    !.encAllFailed = (r.tried # <<>> /\ \A q \in AllQualities : ~enc[q].ok)]] :
               r \in {compressImage(body, lq, enc)}})
    ELSE [name |-> filename, data |-> body, att |-> att]

\* downloadImage(imageURL, outputDir, index, limitMB) against directory dir,
\* with the server's answer resp and the directory's answer fo: the directory
\* afterwards and what the call did
downloadImage(u, dir, index, lq, resp, fo) ==
    Only({IF ~u.valid THEN [fs |-> dir, att |-> [NoAttempt EXCEPT !.i = index, !.err = TRUE]]
          ELSE IF filename \in dir THEN [fs |-> dir, att |-> [NoAttempt EXCEPT !.i = index, !.skipped = TRUE, !.path = filename]]
          ELSE IF resp.net # "ok" THEN [fs |-> dir, att |-> [NoAttempt EXCEPT !.i = index, !.err = TRUE, !.fetched = TRUE]]
          ELSE Only({SaveStep(c.att, c.name, c.data, dir, fo) :
                     c \in {CompressStep([NoAttempt EXCEPT !.i = index, !.fetched = TRUE, !.body = resp.body],
                                         name, resp.body, lq, resp.enc) :
                            name \in {NameAfterHeaders(filename, resp.ct)}}}) :
          filename \in {FirstName(u, index)}})

(***************************************************************************)
(* Inputs of the download loop: the extracted URLs, the servers' answers   *)
(* and the directory's answers.                                            *)
(***************************************************************************)
\* a URL: whether url.Parse accepts it, and filepath.Base of its path
URLSet ==
    {[valid |-> TRUE, base |-> <<"a">>],
     [valid |-> TRUE, base |-> <<"a">> \o ExtPNG],
     [valid |-> TRUE, base |-> <<"a">> \o ExtGIF],
     [valid |-> TRUE, base |-> <<".">>],
     [valid |-> FALSE, base |-> <<>>]}

URLLists == UNION {[1..n -> URLSet] : n \in 1..MaxURLs}

\* -limit: none, or one and a fraction bytes
DownloadLimits == {0, LimitDenom + 1}

ContentTypes == {<<"i","m","a","g","e","/","j","p","e","g">>, <<"I","m","a","g","e","/","P","N","G"," ",";","a">>, <<"t","e","x","t","/","h","t","m","l">>}

NoResponse == [net |-> "none", ct |-> <<>>, body |-> NilBytes, enc |-> NoEncoder]

\* an answer of client.Get: a failure, or status 200 with a Content-Type and a body
Response(net, ct, body, enc) ==
    IF net = "ok" THEN [net |-> net, ct |-> ct, body |-> body, enc |-> enc]
    ELSE [net |-> net, ct |-> <<>>, body |-> NilBytes, enc |-> NoEncoder]

\* the encoder with the same outcome at every quality
UniformEncoder(o) == [q \in AllQualities |-> o]

\* the response bodies: a PNG within the limit, and a PNG and an undecodable
\* body one byte longer
Bodies == {Fetched(1, "png", 1), Fetched(1, "png", 2), Fetched(1, "none", 2)}

\* success or failure of this URL goes to one of the two counters
Tally_SkipUncounted(att, sc, fc) ==
    IF att.err THEN [success |-> sc, fail |-> fc + 1]
    ELSE IF att.skipped THEN [success |-> sc, fail |-> fc]
    ELSE [success |-> sc + 1, fail |-> fc]

\* lines 347-352
Tally(att, sc, fc) ==
    IF att.err THEN [success |-> sc, fail |-> fc + 1] ELSE [success |-> sc + 1, fail |-> fc]

CompressIdle == [data |-> NilBytes, limitQ |-> 0, enc |-> <<>>]

\* a slice that already holds a candidate, as in a recursive call
SeedURL == TokURL \o TokPNG


InitExtract ==
    /\ data \in ExtractInputs
    /\ urls0 \in {<<>>, <<SeedURL>>}
    /\ urls = urls0
    /\ epc = "start"
    /\ cin = CompressIdle /\ cres = NoResult /\ cpc = "idle"
    /\ limitQ = 0 /\ imageURLs = <<>> /\ fs = <<>> /\ run = 0 /\ idx = 0
    /\ successCount = 0 /\ failCount = 0 /\ last = NoAttempt /\ saved = <<>> /\ pc = "idle"

Extract ==
    /\ epc = "start"
    /\ urls' \in extractImageURLs(data, urls0)
    /\ epc' = "done"
    /\ UNCHANGED <<data, urls0>>
    /\ UNCHANGED cvars
    /\ UNCHANGED dvars

NextExtract == Extract

SpecExtract == InitExtract /\ [][NextExtract]_vars

InitCompress ==
    /\ \E sig \in Sigs, n \in 0..MaxSize, lq \in LimitDenom..MaxLimitQ :
        \E enc \in EncodersFor(Fetched(1, sig, n), lq) :
            cin = [data |-> Fetched(1, sig, n), limitQ |-> lq, enc |-> enc]
    /\ cres = NoResult
    /\ cpc = "start"
    /\ data = JScalar("null") /\ urls0 = <<>> /\ urls = <<>> /\ epc = "idle"
    /\ limitQ = 0 /\ imageURLs = <<>> /\ fs = <<>> /\ run = 0 /\ idx = 0
    /\ successCount = 0 /\ failCount = 0 /\ last = NoAttempt /\ saved = <<>> /\ pc = "idle"

Compress ==
    /\ cpc = "start"
    /\ cres' = compressImage(cin.data, cin.limitQ, cin.enc)
    /\ cpc' = "done"
    /\ UNCHANGED cin
    /\ UNCHANGED evars
    /\ UNCHANGED dvars

NextCompress == Compress

SpecCompress == InitCompress /\ [][NextCompress]_vars

(***************************************************************************)
(* main: the download loop.                                                *)
(***************************************************************************)
Init ==
    /\ limitQ \in DownloadLimits
    /\ imageURLs \in URLLists
    /\ fs = {}
    /\ run = 1 /\ idx = 1
    /\ successCount = 0 /\ failCount = 0
    /\ last = NoAttempt
    /\ saved = [k \in 1..Len(imageURLs) |-> FALSE]
    /\ pc = "loop"
    /\ data = JScalar("null") /\ urls0 = <<>> /\ urls = <<>> /\ epc = "idle"
    /\ cin = CompressIdle /\ cres = NoResult /\ cpc = "idle"

\* the loop's step with the server's answer resp and the directory's answer fo
DownloadWith(resp, fo) ==
    \E r \in {downloadImage(imageURLs[idx], fs, idx, limitQ, resp, fo)} :
    \E c \in {Tally(r.att, successCount, failCount)} :
       /\ fs' = r.fs
       /\ last' = r.att
       /\ successCount' = c.success
       /\ failCount' = c.fail
       /\ saved' = IF run = 1 THEN [saved EXCEPT ![idx] = r.att.wrote] ELSE saved
       /\ idx' = idx + 1
       /\ UNCHANGED <<limitQ, imageURLs, run, pc>>
       /\ UNCHANGED evars
       /\ UNCHANGED cvars

\* one iteration of the loop of lines 344-353.  The answers are drawn only as
\* far as downloadImage reads them: none when it returns before the request,
\* a Content-Type when the name has no dot, an encoder when the ladder is entered.
Download ==
    /\ pc = "loop" /\ idx <= Len(imageURLs)
    /\ \E filename \in {FirstName(imageURLs[idx], idx)} :
          IF ~imageURLs[idx].valid \/ filename \in fs THEN DownloadWith(NoResponse, "ok")
          ELSE \/ \E net \in {"neterr", "status", "readerr"} :
                  \E resp \in {Response(net, <<>>, NilBytes, NoEncoder)} : DownloadWith(resp, "ok")
               \/ \E body \in Bodies, fo \in {"ok", "createfail", "writefail"} :
                  \E ct \in IF Contains(filename, <<".">>) THEN {<<>>} ELSE ContentTypes :
                  \E o \in IF limitQ > 0 /\ ExceedsLimit(body.size, limitQ) /\ body.sig \in DecodeFormats THEN EncOutcomes(limitQ) ELSE {EncFail} :
                  \E resp \in {Response("ok", ct, body, UniformEncoder(o))} : DownloadWith(resp, fo)

\* lines 355-357: the statistics, and the process ends
Finish ==
    /\ pc = "loop" /\ idx > Len(imageURLs)
    /\ pc' = "done"
    /\ UNCHANGED <<limitQ, imageURLs, fs, run, idx, successCount, failCount, last, saved>>
    /\ UNCHANGED evars
    /\ UNCHANGED cvars

\* the program is run again on the same JSON file and output directory
Rerun ==
    /\ pc = "done" /\ run = 1
    /\ run' = run + 1
    /\ idx' = 1
    /\ successCount' = 0 /\ failCount' = 0
    /\ last' = NoAttempt
    /\ pc' = "loop"
    /\ UNCHANGED <<limitQ, imageURLs, fs, saved>>
    /\ UNCHANGED evars
    /\ UNCHANGED cvars

\* one run of the program on an empty output directory
Next == Download \/ Finish

Spec == Init /\ [][Next]_vars

\* two runs of the program on the same output directory
NextRerun == Download \/ Finish \/ Rerun

SpecRerun == Init /\ [][NextRerun]_vars

(***************************************************************************)
(* Properties of the extractor.                                            *)
(***************************************************************************)
\* s[i..j] is in the language of imageURLPattern: scheme, body, dot,
\* extension, optional query
InPattern(s, i, j) ==
    \E sch \in {SchemeHTTP, SchemeHTTPS} :
        /\ HasAt(s, i, sch)
        /\ \E p \in (i + Len(sch) + 1)..j :
            /\ s[p] = "."
            /\ \A k \in (i + Len(sch))..(p - 1) : s[k] \notin Excluded
            /\ \E x \in 1..Len(PatternExts) :
                LET e == p + Len(PatternExts[x])
                IN /\ HasAt(s, p + 1, PatternExts[x])
                   /\ e <= j
                   /\ e = j \/ (s[e + 1] = "?" /\ \A k \in (e + 2)..j : s[k] \notin Excluded)

\* some substring of s[lo..hi] is in the language
HasExplicit(s, lo, hi) == \E i \in lo..hi : s[i] = "h" /\ \E j \in i..hi : InPattern(s, i, j)

\* where the strings of subs lie in s, each the first occurrence after the one before
RECURSIVE LocateFrom(_, _, _)
LocateFrom(s, subs, from) ==
    IF subs = <<>> THEN <<>>
    ELSE LET at == {i \in from..Len(s) : HasAt(s, i, Head(subs))}
         IN IF at = {} \/ from = 0 THEN <<[lo |-> 0, hi |-> 0]>> \o LocateFrom(s, Tail(subs), 0)
            ELSE <<[lo |-> Min(at), hi |-> Min(at) + Len(Head(subs)) - 1]>> \o LocateFrom(s, Tail(subs), Min(at) + Len(Head(subs)))

\* added is all the non-overlapping matches of the pattern in s, left to right
AllExplicitMatches(s, added) ==
    LET at == LocateFrom(s, added, 1)
        n == Len(at)
    IN /\ n >= 1
       /\ \A k \in 1..n : at[k].lo # 0 /\ InPattern(s, at[k].lo, at[k].hi)
       /\ ~HasExplicit(s, 1, at[1].lo - 1)
       /\ \A k \in 1..(n - 1) : ~HasExplicit(s, at[k].hi + 1, at[k + 1].lo - 1)
       /\ ~HasExplicit(s, at[n].hi + 1, Len(s))

\* the heuristic fallback's three conditions
FallbackHolds(s) ==
    /\ HasPrefix(s, SchemeHTTP) \/ HasPrefix(s, SchemeHTTPS)
    /\ UrlParseOK(s)
    /\ \E k \in 1..Len(imageKeywords) : Contains(ToLower(s), imageKeywords[k])

\* what the call appended
Added == SubSeq(urls, Len(urls0) + 1, Len(urls))

\* C7: for a string leaf, extractImageURLs appends all the non-overlapping
\* explicit-extension matches left to right when there is one, and otherwise
\* the whole string once exactly when it starts with http:// or https://,
\* parses as a URL and its lowercase form holds a keyword; a number, a boolean
\* and null append nothing.
C7_StringLeafRule ==
    (epc = "done" /\ data.t \notin {"array", "object"}) =>
        /\ Len(urls) >= Len(urls0) /\ SubSeq(urls, 1, Len(urls0)) = urls0
        /\ data.t # "string" => Added = <<>>
        /\ data.t = "string" =>
            IF HasExplicit(data.s, 1, Len(data.s)) THEN AllExplicitMatches(data.s, Added)
            ELSE Added = IF FallbackHolds(data.s) THEN <<data.s>> ELSE <<>>

\* C7 witness: a string that meets the fallback's three conditions and holds an
\* explicit match shorter than itself was extracted into a slice that already
\* held a candidate: the match was appended, the string was not
C7_Witness ==
    /\ epc = "done" /\ data.t = "string" /\ urls0 # <<>>
    /\ FallbackHolds(data.s)
    /\ Len(Added) = 1
    /\ Added[1] # data.s

RECURSIVE NumStringLeaves(_), MaxExplicit(_), SumOver(_, _, _)
\* the string leaves of a tree
NumStringLeaves(v) ==
    IF v.t = "string" THEN 1
    ELSE IF v.t \in {"array", "object"} THEN SumOver(v.items, 1, 0)
    ELSE 0

SumOver(items, k, acc) == IF k > Len(items) THEN acc ELSE SumOver(items, k + 1, acc + NumStringLeaves(items[k]))

\* the largest number of explicit matches in one string leaf of a tree
MaxExplicit(v) ==
    IF v.t = "string" THEN Len(FindAllStringIndex(v.s))
    ELSE IF v.t \in {"array", "object"} THEN Max({0} \cup {MaxExplicit(v.items[k]) : k \in 1..Len(v.items)})
    ELSE 0

\* C8 as stated: the candidates of a tree number at most its string leaves
\* times the largest explicit-match count of a string leaf.
C8_Original == epc = "done" => Len(Added) <= NumStringLeaves(data) * MaxExplicit(data)

\* C8 amended: extractImageURLs returns from every tree, and the candidates
\* number at most the string leaves times the larger of 1 and the largest
\* explicit-match count of a string leaf (the fallback adds one candidate for
\* a leaf without explicit match).
C8_Bound ==
    /\ epc = "start" => extractImageURLs(data, urls0) # {}
    /\ epc = "done" => Len(Added) <= NumStringLeaves(data) * Max({1, MaxExplicit(data)})

\* C8 witness: a tree with a two-match leaf and a fallback leaf gave three candidates
C8_Witness ==
    /\ epc = "done" /\ data.t = "object"
    /\ NumStringLeaves(data) = 2 /\ MaxExplicit(data) = 2
    /\ Len(Added) = 3

(***************************************************************************)
(* Properties of compressImage.                                            *)
(***************************************************************************)
\* the input is over budget and decodes as jpeg, png or gif
OverBudgetImage == cin.data.size > LimitBytes(cin.limitQ) /\ cin.data.sig \in {"jpeg", "png", "gif"}

\* the encode at quality q succeeds within the budget
Fits(q) == cin.enc[q].ok /\ cin.enc[q].size <= LimitBytes(cin.limitQ)

\* C3: for an over-budget jpeg, png or gif, jpeg.Encode is called with 85, 75,
\* 65, 55, 45, 35, 25 in that order up to the first quality whose encode
\* succeeds with at most limitBytes bytes; that encode is returned, no lower
\* quality is encoded, and failed levels before it are skipped.
C3_FirstFitReturned ==
    LET ladder == <<85, 75, 65, 55, 45, 35, 25>>
        fit == {k \in 1..7 : Fits(ladder[k])}
    IN (cpc = "done" /\ OverBudgetImage /\ fit # {}) =>
        /\ cres.tried = SubSeq(ladder, 1, Min(fit))
        /\ cres.data = Encoded(ladder[Min(fit)], cin.enc[ladder[Min(fit)]].size)
        /\ ~cres.err

\* C3 witness: the encode failed at 85, was too large at 75 and fitted at 65
C3_Witness ==
    /\ cpc = "done" /\ OverBudgetImage
    /\ ~cin.enc[85].ok
    /\ cin.enc[75].ok /\ ~Fits(75)
    /\ Fits(65)
    /\ cres.tried = <<85, 75, 65>> /\ cres.data.q = 65

\* C4: when no quality of the ladder gives an encode within the budget,
\* compressImage encodes once more, at quality 20, and returns that buffer
\* without error, also when it exceeds the budget.
C4_FallbackReturned ==
    (cpc = "done" /\ OverBudgetImage /\ \A q \in {85, 75, 65, 55, 45, 35, 25} : ~Fits(q)) =>
        /\ cres.tried = <<85, 75, 65, 55, 45, 35, 25, 20>>
        /\ ~cres.err
        /\ cin.enc[20].ok => cres.data = Encoded(20, cin.enc[20].size)
        /\ ~cin.enc[20].ok => cres.data = EmptyBuf

\* C4 witness: every level was too large and the quality-20 encode, still too
\* large, was returned
C4_Witness ==
    /\ cpc = "done" /\ OverBudgetImage
    /\ \A q \in {85, 75, 65, 55, 45, 35, 25} : cin.enc[q].ok /\ ~Fits(q)
    /\ cres.data.kind = "jpeg" /\ cres.data.q = 20
    /\ cres.data.size > LimitBytes(cin.limitQ)
    /\ ~cres.err


(***************************************************************************)
(* Properties of downloadImage and of main's loop.  last is what the most  *)
(* recent call of downloadImage did.                                       *)
(***************************************************************************)
\* C1: when the fetched image is over a positive limit and compressImage
\* fails to decode it, the bytes downloadImage writes are the fetched bytes
C1_DecodeFailureSavesOriginal ==
    (last.compressed /\ last.cerr /\ last.wrote) => last.content = last.body

\* C2: when jpeg.Encode fails at every quality of the ladder and at quality
\* 20, the file downloadImage saves holds the fetched bytes
C2_EncodeFailureSavesOriginal ==
    (last.compressed /\ last.encAllFailed /\ last.wrote) => last.content = last.body

\* C5: downloadImage never creates or writes a path that already exists in
\* the output directory
C5_NeverWritesExistingPath ==
    last.created => ~last.existed

\* C6: in the second run over the same list and directory, a URL whose file
\* the first run saved is skipped: no request and no file created for it
C6_SecondRunSkipsSaved ==
    (run = 2 /\ last.i >= 1 /\ saved[last.i]) => (last.skipped /\ ~last.fetched /\ ~last.created)

\* one step of the loop: the URL at idx is the one attempted, and exactly one
\* of the two counters goes up by one, failCount exactly when the call failed
C9_Step ==
    \/ /\ idx' = idx + 1
       /\ last'.i = idx
       /\ \/ ~last'.err /\ successCount' = successCount + 1 /\ failCount' = failCount
          \/ last'.err /\ successCount' = successCount /\ failCount' = failCount + 1
    \/ UNCHANGED <<idx, successCount, failCount, last>>

\* C9: the loop attempts every URL once, in list order, whatever fails; each
\* attempt increments exactly one of successCount and failCount, so after i
\* URLs their sum is i, and the run ends with the sum equal to the list's length
C9_EveryURLCounted ==
    /\ [](/\ successCount + failCount = idx - 1
          /\ idx \in 1..(Len(imageURLs) + 1)
          /\ (idx > 1 => last.i = idx - 1)
          /\ (pc = "done" => successCount + failCount = Len(imageURLs)))
    /\ [][C9_Step]_vars

\* the run has ended with a failure at the first URL and a success at the second
C9_Witness ==
    /\ pc = "done" /\ Len(imageURLs) = 2
    /\ failCount = 1 /\ successCount = 1
    /\ last.i = 2 /\ ~last.err /\ last.wrote

\* C10: an over-limit image under a .png or .gif name that compressImage
\* returns as a JPEG encode, from the ladder or from quality 20, is saved
\* under the same base name with .jpg, and the file holds that encode; a file
\* whose name was changed to .jpg never holds the fetched bytes
C10_RenamedIsJPEG ==
    /\ (last.created /\ last.compressed /\ ~last.cerr /\ last.cdata.kind = "jpeg"
            /\ Ext(last.name0) \in {ExtPNG, ExtGIF})
       => /\ last.path = TrimSuffix(last.name0, Ext(last.name0)) \o ExtJPG
          /\ last.wrote => (last.content = last.cdata /\ last.content.kind = "jpeg")
    /\ (last.created /\ last.compressed /\ last.path # last.name0)
       => /\ Ext(last.name0) \in {ExtPNG, ExtGIF}
          /\ Ext(last.path) = ExtJPG
          /\ last.wrote => (last.content # last.body /\ last.content.kind # "fetched")

\* a PNG named from its Content-Type, still over the limit at quality 20, is
\* saved as .jpg with the quality-20 encode
C10_Witness ==
    /\ last.wrote /\ last.compressed /\ ~last.cerr
    /\ Ext(last.name0) = ExtPNG /\ ~Contains(imageURLs[last.i].base, <<".">>)
    /\ last.cdata = Encoded(FallbackQuality, LimitBytes(limitQ) + 1)
    /\ last.path = TrimSuffix(last.name0, ExtPNG) \o ExtJPG
    /\ last.content = last.cdata

====
